---- MODULE Spec2Model ----
(***************************************************************************)
(* A model of the two ArcGIS script tools of arcgis-geodepressions:        *)
(*   IdentifyGeoDepressions.py  (fill-and-difference depression extractor) *)
(*   AnalyseGeoDepressions.py   (morphometric characterisation)            *)
(*                                                                         *)
(* Numbers.  Python floats are modelled in fixed point:                    *)
(*   - raster values, cell sizes, areas and perimeters are integers        *)
(*     (map units);                                                        *)
(*   - lengths computed by math.hypot, ratios and angles carry three       *)
(*     decimals (the integer is the value times 1000).                     *)
(* Rasters are one row of cells (a transect), cell c covering              *)
(* [(c-1)*cell_size, c*cell_size] x [0, cell_size].                        *)
(***************************************************************************)
EXTENDS Integers, Sequences, FiniteSets, TLC

VARIABLES
    tool,                 \* which script runs: "identify", "analyse", "none"
    pc,                   \* position of the script
    raster,               \* the bathymetry raster (bathy_dataset), cell -> value
    params,               \* tool parameters and describe.meanCellWidth
    spatial,              \* what arcpy.CheckExtension("spatial") answered
    licenseHeld,          \* Spatial Analyst extension checked out
    in_memory,            \* names of the datasets held by the in_memory workspace
    exc,                  \* the exception that left the try block ("none" if none)
    errors,               \* arcpy.AddError messages, in order
    ops,                  \* geoprocessing calls made so far, in order
    depression,           \* identify: Minus(bathy, fill) raster
    depression_polygons,  \* the polygon rows (both tools)
    feature_count,        \* identify: the GetCount Result object
    deepest_point,        \* identify: zonal_points; analyse: deepest_point rows
    centroid_point,       \* analyse: FeatureToPoint rows
    cursor,               \* analyse: [dep_id, pos] of the UpdateCursor loop
    outputs,              \* feature classes written by CopyFeatures, name -> rows
    call,                 \* primitives harness: the pending call
    ret                   \* primitives harness: the value returned

vars == <<tool, pc, raster, params, spatial, licenseHeld, in_memory, exc, errors,
          ops, depression, depression_polygons, feature_count, deepest_point,
          centroid_point, cursor, outputs, call, ret>>

runVars == <<tool, pc, raster, params, spatial, licenseHeld, in_memory, exc, errors,
             ops, depression, depression_polygons, feature_count, deepest_point,
             centroid_point, cursor, outputs>>

(***************************************************************************)
(* Bounds of the model.                                                    *)
(***************************************************************************)
IdentifyCells == 6      \* cells of the raster given to the identify tool
AnalyseCells == 3       \* cells of the raster given to the analyse tool
MaxDepth == 1           \* raster values range over -MaxDepth .. 1
MaxPolys == 2           \* polygons handed to the analyse tool
MaxCoord == 2           \* azimuth harness: coordinates range over 0 .. MaxCoord
MaxDelta == 2           \* shape_descriptor harness: +-MaxDelta around each threshold

(***************************************************************************)
(* Arithmetic helpers (Python's math module, in fixed point).              *)
(***************************************************************************)
Abs(x) == IF x < 0 THEN -x ELSE x

Min2(a, b) == IF a <= b THEN a ELSE b

Max2(a, b) == IF a >= b THEN a ELSE b

RECURSIVE IsqrtFrom(_, _, _)
IsqrtFrom(v, r, bit) ==
    \* the largest root of a square <= v, found bit by bit from the highest bit
    IF bit = 0 THEN r
    ELSE IF (r + bit) * (r + bit) <= v THEN IsqrtFrom(v, r + bit, bit \div 2)
    ELSE IsqrtFrom(v, r, bit \div 2)

Isqrt(v) == IsqrtFrom(v, 0, 16384)

\* math.hypot(dx, dy), dx and dy in map units, result times 1000
Hypot(dx, dy) == Isqrt((dx * dx + dy * dy) * 1000000)

\* math.atan(n/d) in degrees times 1000, for 0 <= n <= d, d > 0:
\* atan(x) = 45x + 15.642 x (1 - x) degrees (error below 0.25 degree,
\* exact at x = 0 and x = 1).
AtanDeg(n, d) == (45000 * n) \div d + (15642 * n * (d - n)) \div (d * d)

\* math.atan(|a| / |b|) for any a >= 0, b > 0, degrees times 1000
AtanRatioDeg(a, b) == IF a <= b THEN AtanDeg(a, b) ELSE 90000 - AtanDeg(b, a)

\* (math.atan2(y, x) * 180) / math.pi, degrees times 1000.  The arguments are
\* differences of coordinates, so a zero is +0.0 and atan2(+0.0, x < 0) is +pi.
Atan2Deg(y, x) ==
    IF x > 0 THEN (IF y >= 0 THEN AtanRatioDeg(y, x) ELSE -AtanRatioDeg(-y, x))
    ELSE IF x < 0 THEN (IF y >= 0 THEN 180000 - AtanRatioDeg(y, -x)
                        ELSE -180000 + AtanRatioDeg(-y, -x))
    ELSE IF y > 0 THEN 90000
    ELSE IF y < 0 THEN -90000
    ELSE 0

(***************************************************************************)
(* Geometry primitives of AnalyseGeoDepressions.py.                        *)
(***************************************************************************)
IRREGULAR == "Irregular shape and/or low dia/dep ratio. Unlikely to be caused by fluid escape"

SEMI_REGULAR == "Semi-regular shape. Depression needs further investigation"

REGULAR == "Regular shape. Potentially a geo-feature caused by fluid escape"

ThinIrregular == 500      \* 0.5
ThinSemiRegular == 750    \* 0.75
DdIrregular == 100000     \* 100

\* faulty variant: the fold adds 180 to every bearing that is not positive
azimuthFoldsZero(coords) ==
    LET degrees == Atan2Deg(coords[2] - coords[1], coords[4] - coords[3])
    IN  IF degrees <= 0 THEN degrees + 180000 ELSE degrees

\* azimuth(coords), coords = [x1, x2, y1, y2]
azimuth(coords) ==
    LET degrees == Atan2Deg(coords[2] - coords[1], coords[4] - coords[3])
    IN  IF degrees < 0 THEN degrees + 180000 ELSE degrees

\* eccentricity(major_axis, minor_axis), axes and result times 1000;
\* major_axis = 0 raises ZeroDivisionError (see EccentricityRaises)
eccentricity(major_axis, minor_axis) ==
    LET maj2 == major_axis * major_axis
        min2 == minor_axis * minor_axis
    IN  Isqrt((((maj2 - min2) * 10) \div (maj2 \div 100)) * 1000)

EccentricityRaises(major_axis) == major_axis = 0

\* thinness_ratio(area, perimeter), result times 1000 (4*pi = 12.566)
thinness_ratio(area, perimeter) == (12566 * area) \div (perimeter * perimeter)

ThinnessRaises(perimeter) == perimeter = 0

\* faulty variant: the thinness test of the first branch is missing
shape_descriptor_ratio_only(poly_thinness, poly_dd_ratio) ==
    IF poly_dd_ratio > DdIrregular THEN IRREGULAR
    ELSE IF poly_thinness < ThinSemiRegular THEN SEMI_REGULAR
    ELSE REGULAR

\* shape_descriptor(poly_thinness, poly_dd_ratio), both times 1000
shape_descriptor(poly_thinness, poly_dd_ratio) ==
    IF poly_thinness < ThinIrregular \/ poly_dd_ratio > DdIrregular THEN IRREGULAR
    ELSE IF poly_thinness < ThinSemiRegular THEN SEMI_REGULAR
    ELSE REGULAR

\* diameter_depth_ratio(diameter, depth): diameter times 1000, depth in map
\* units, result times 1000; depth = 0 raises ZeroDivisionError
diameter_depth_ratio(diameter, depth) == Abs(diameter \div Abs(depth))

DiameterDepthRaises(depth) == depth = 0

(***************************************************************************)
(* Python 2 values and comparison.  arcpy.GetCount_management returns a    *)
(* Result object, not a number.                                            *)
(***************************************************************************)
PyInt(n) == [type |-> "int", val |-> n]

Result(n) == [type |-> "Result", val |-> n]

\* a < b in Python 2: two ints compare by value; an object that defines no
\* ordering is compared with an int by the default rule, under which a number
\* is smaller than any other object.
Py2Less(a, b) ==
    IF a.type = "int" /\ b.type = "int" THEN a.val < b.val
    ELSE IF a.type = "int" THEN TRUE
    ELSE FALSE

(***************************************************************************)
(* Rasters and the geoprocessing tools (one-row rasters).                  *)
(***************************************************************************)
NoData == -9999
Null == -9999

CellsOf(r) == 1..Len(r)

RECURSIVE SeqMax(_, _)
SeqMax(s, n) == IF n = 1 THEN s[1] ELSE Max2(s[n], SeqMax(s, n - 1))

\* faulty variant: only the first cell of the raster is looked at
RasterMaximumFirstCell(r) == r[1]

\* Raster.maximum / GetRasterProperties "MAXIMUM"
RasterMaximum(r) == SeqMax(r, Len(r))

SetMin(S) == CHOOSE m \in S : \A x \in S : m <= x

SetMax(S) == CHOOSE m \in S : \A x \in S : m >= x

\* GetRasterProperties "MINIMUM" (NoData cells are not counted)
RasterMinimum(r) == SetMin({r[c] : c \in {k \in CellsOf(r) : r[k] # NoData}})

\* the level a sink would be filled to: the lower of the highest cell on either
\* side (the cells of the raster's edge drain outwards)
Spill(r, c) ==
    Min2(SetMax({r[k] : k \in 1..c}), SetMax({r[k] : k \in c..Len(r)}))

InSink(r, c) == Spill(r, c) > r[c]

\* the cells of the sink that holds cell c
SinkOf(r, c) ==
    {k \in CellsOf(r) : \A j \in Min2(c, k)..Max2(c, k) : InSink(r, j)}

\* arcpy.sa.Fill(raster, z_limit): a sink is filled to its pour point unless the
\* difference between the pour point and the sink's bottom exceeds z_limit
Fill(r, z) ==
    [c \in CellsOf(r) |->
        IF InSink(r, c) /\ Spill(r, c) - SetMin({r[k] : k \in SinkOf(r, c)}) <= z
        THEN Spill(r, c) ELSE r[c]]

\* arcpy.sa.Minus(a, b)
Minus(a, b) == [c \in CellsOf(a) |-> a[c] - b[c]]

\* remap_range_creator(raster): RemapRange([[minimum, -1, 1]])
remap_range_creator(r) == [from |-> RasterMinimum(r), to |-> -1, new |-> 1]

\* arcpy.sa.Reclassify(raster, "VALUE", remap, "NODATA")
Reclassify(r, remap) ==
    [c \in CellsOf(r) |->
        IF remap.from <= r[c] /\ r[c] <= remap.to THEN remap.new ELSE NoData]

\* the members of a set of numbers in ascending order
SortedSeq(S) ==
    [i \in 1..Cardinality(S) |->
        CHOOSE x \in S : Cardinality({y \in S : y < x}) = i - 1]

\* RasterToPolygon_conversion: one polygon per run of connected cells of the
\* same value, numbered along the row
RasterToPolygon(r) ==
    LET starts == {c \in CellsOf(r) : r[c] # NoData /\ (c = 1 \/ r[c - 1] # r[c])}
        order == SortedSeq(starts)
        endOf(a) == SetMax({b \in a..Len(r) : \A k \in a..b : r[k] = r[a]})
    IN  [i \in 1..Len(order) |->
            [Id |-> i, gridcode |-> r[order[i]], zone |-> order[i]..endOf(order[i]),
             AREA_M |-> Null, POCK_DEP |-> Null]]

\* !SHAPE.area! of a polygon of the one-row raster
ShapeArea(zone, cell_size) == Cardinality(zone) * cell_size * cell_size

\* ZonalStatistics(zones, field, raster, stat): every cell of a zone gets the
\* statistic of the zone's cells, the other cells NoData
ZonalStatistics(polys, r, stat) ==
    [c \in CellsOf(r) |->
        LET holders == {i \in 1..Len(polys) : c \in polys[i].zone}
        IN  IF holders = {} THEN NoData
            ELSE LET vals == {r[k] : k \in polys[SetMin(holders)].zone}
                 IN  IF stat = "MINIMUM" THEN SetMin(vals) ELSE SetMax(vals)]

\* RasterToPoint_conversion: one point per cell that holds data, in cell order
RasterToPoint(r) ==
    LET order == SortedSeq({c \in CellsOf(r) : r[c] # NoData})
    IN  [i \in 1..Len(order) |->
            [pointid |-> i, cell |-> order[i], GRID_CODE |-> r[order[i]]]]

(***************************************************************************)
(* Inputs.                                                                 *)
(***************************************************************************)
Elevations == (-MaxDepth)..1

CellSizes == {1, 2}

ZLimits == 1..MaxDepth

MaxAreas == {4, 16}

Depths == {-1, 0}

Orientations == {"EW", "NS"}

\* runs of cells lo..hi of the analyse raster
ZoneInputs == {lo..hi : lo \in 1..AnalyseCells, hi \in 1..AnalyseCells} \ {{}}

\* the feature sets the analyse tool may be given: polygons of a raster of the
\* identify tool (disjoint runs of cells, numbered along the row), each with a
\* POCK_DEP value
PolygonInputs ==
    UNION {
        {p \in [1..n -> [FID : 0..(MaxPolys - 1), zone : ZoneInputs, POCK_DEP : Depths]] :
            /\ \A i \in 1..n : p[i].FID = i - 1
            /\ \A i \in 1..(n - 1) : SetMax(p[i].zone) < SetMin(p[i + 1].zone)}
        : n \in 0..MaxPolys}

NoCall == [fn |-> "none", args |-> <<>>]

Idle ==
    /\ spatial = "unchecked"
    /\ licenseHeld = FALSE
    /\ in_memory = {}
    /\ exc = "none"
    /\ errors = <<>>
    /\ ops = <<>>
    /\ depression = <<>>
    /\ feature_count = PyInt(0)
    /\ deepest_point = <<>>
    /\ centroid_point = <<>>
    /\ cursor = [dep_id |-> 0, pos |-> 0]
    /\ outputs = <<>>

\* IdentifyGeoDepressions.py after GetParameter
InitIdentify ==
    /\ tool = "identify"
    /\ pc = "check_negative"
    /\ raster \in [1..IdentifyCells -> Elevations]
    /\ params \in [cell_size : CellSizes, z_limit : ZLimits, max_area : MaxAreas,
                   orientation : {"EW"}]
    /\ depression_polygons = <<>>
    /\ Idle
    /\ call = NoCall
    /\ ret = <<>>

\* AnalyseGeoDepressions.py after GetParameter
InitAnalyse ==
    /\ tool = "analyse"
    /\ pc = "check_negative"
    /\ raster \in [1..AnalyseCells -> Elevations]
    /\ params \in [cell_size : CellSizes, z_limit : {0}, max_area : {0},
                   orientation : Orientations]
    /\ depression_polygons \in PolygonInputs
    /\ Idle
    /\ call = NoCall
    /\ ret = <<>>

Init == InitIdentify \/ InitAnalyse

(***************************************************************************)
(* Steps shared by the two scripts (each file holds its own copy).         *)
(***************************************************************************)
Raise(e) == exc' = e /\ pc' = "except"

\* faulty variant: the extension is checked out whatever CheckExtension answers
CheckOutLicenseUnchecked(next) ==
    /\ pc = "check_license"
    /\ \E answer \in {"Available", "Unavailable"} : spatial' = answer
    /\ licenseHeld' = TRUE
    /\ ops' = ops \o <<"CheckExtension", "CheckOutExtension">>
    /\ pc' = next
    /\ UNCHANGED <<tool, raster, params, in_memory, exc, errors, depression,
                   depression_polygons, feature_count, deepest_point, centroid_point,
                   cursor, outputs, call, ret>>

\* "Check out Spatial Analyst extension if available"
CheckOutLicense(next) ==
    /\ pc = "check_license"
    /\ \E answer \in {"Available", "Unavailable"} :
        /\ spatial' = answer
        /\ IF answer = "Available"
           THEN /\ licenseHeld' = TRUE
                /\ ops' = ops \o <<"CheckExtension", "CheckOutExtension">>
                /\ pc' = next
                /\ exc' = exc
           ELSE /\ licenseHeld' = licenseHeld
                /\ ops' = ops \o <<"CheckExtension">>
                /\ Raise("LicenseError")
    /\ UNCHANGED <<tool, raster, params, in_memory, errors, depression,
                   depression_polygons, feature_count, deepest_point, centroid_point,
                   cursor, outputs, call, ret>>

\* the messages AddError is given by the except clause that catches e
ExceptMessages(e) ==
    CASE e = "LicenseError" -> <<"Spatial Analyst Extension Unavailable.">>
      [] e = "NotNegative" -> <<"Bathy raster must be negative values only.">>
      [] e = "NoFeatures" -> <<"There were no depressions within the size range found.">>
      [] e = "ZeroDivisionError" -> <<"float division by zero", "ArcPy ERRORS:">>
      [] OTHER -> <<"ERROR: tool failed to execute", "ArcPy ERRORS:">>

\* except LicenseError / NotNegative / NoFeatures / bare except
Except ==
    /\ pc = "except"
    /\ errors' = errors \o ExceptMessages(exc)
    /\ pc' = "finally"
    /\ UNCHANGED <<tool, raster, params, spatial, licenseHeld, in_memory, exc, ops,
                   depression, depression_polygons, feature_count, deepest_point,
                   centroid_point, cursor, outputs, call, ret>>

\* faulty variant: the finally block deletes in_memory but does not check the extension in
FinallyKeepsLicense ==
    /\ pc = "finally"
    /\ ops' = ops \o <<"Delete">>
    /\ in_memory' = {}
    /\ pc' = "done"
    /\ UNCHANGED <<tool, raster, params, spatial, licenseHeld, exc, errors,
                   depression, depression_polygons, feature_count, deepest_point,
                   centroid_point, cursor, outputs, call, ret>>

\* finally: CheckInExtension("spatial"), Delete_management('in_memory')
Finally ==
    /\ pc = "finally"
    /\ licenseHeld' = FALSE
    /\ ops' = ops \o <<"CheckInExtension", "Delete">>
    /\ in_memory' = {}
    /\ pc' = "done"
    /\ UNCHANGED <<tool, raster, params, spatial, exc, errors,
                   depression, depression_polygons, feature_count, deepest_point,
                   centroid_point, cursor, outputs, call, ret>>

(***************************************************************************)
(* IdentifyGeoDepressions.py                                               *)
(***************************************************************************)
\* "Checks bathy is negative values only"
IdentifyCheckNegative ==
    /\ tool = "identify" /\ pc = "check_negative"
    /\ ops' = ops \o <<"CalculateStatistics", "GetRasterProperties">>
    /\ IF RasterMaximum(raster) > 0
       THEN Raise("NotNegative")
       ELSE pc' = "check_license" /\ exc' = exc
    /\ UNCHANGED <<tool, raster, params, spatial, licenseHeld, in_memory, errors,
                   depression, depression_polygons, feature_count, deepest_point,
                   centroid_point, cursor, outputs, call, ret>>

IdentifyCheckOutLicense == tool = "identify" /\ CheckOutLicense("fill")

\* fill_raster = Fill(bathy_dataset, z_limit); depression = Minus(bathy_dataset, fill_raster)
IdentifyFillMinus ==
    /\ tool = "identify" /\ pc = "fill"
    /\ depression' = Minus(raster, Fill(raster, params.z_limit))
    /\ ops' = ops \o <<"Fill", "Minus">>
    /\ in_memory' = in_memory \cup {"fill_raster", "depression"}
    /\ pc' = "reclassify"
    /\ UNCHANGED <<tool, raster, params, spatial, licenseHeld, exc, errors,
                   depression_polygons, feature_count, deepest_point,
                   centroid_point, cursor, outputs, call, ret>>

\* remap, Reclassify, RasterToPolygon_conversion, GetCount
IdentifyReclassifyToPolygon ==
    /\ tool = "identify" /\ pc = "reclassify"
    /\ LET polys == RasterToPolygon(Reclassify(depression, remap_range_creator(depression)))
       IN  /\ depression_polygons' = polys
           /\ feature_count' = Result(Len(polys))
    /\ ops' = ops \o <<"Reclassify", "RasterToPolygon", "GetCount">>
    /\ in_memory' = in_memory \cup {"reclassify_raster", "depression_polygons"}
    /\ pc' = "size_filter"
    /\ UNCHANGED <<tool, raster, params, spatial, licenseHeld, exc, errors,
                   depression, deepest_point, centroid_point, cursor, outputs,
                   call, ret>>

\* min_area = (cell_size * 2) ** 2
min_area(cell_size) == (cell_size * 2) * (cell_size * 2)

\* sql_exp = "AREA_M >= {} AND AREA_M <= {}".format(min_area, max_area)
sql_exp(lo, hi) == [lo |-> lo, hi |-> hi]

\* faulty variant: the lower limit is exclusive
SqlSelectsAbove(row, sql) == row.AREA_M > sql.lo /\ row.AREA_M <= sql.hi

\* the where clause of MakeFeatureLayer, evaluated on a row
SqlSelects(row, sql) == row.AREA_M >= sql.lo /\ row.AREA_M <= sql.hi

\* MakeFeatureLayer_management(features, None, where_clause)
MakeFeatureLayer(rows, sql) == SelectSeq(rows, LAMBDA row : SqlSelects(row, sql))

\* "Remove polygons that are too small and too big"
IdentifySizeFilter ==
    /\ tool = "identify" /\ pc = "size_filter"
    /\ LET withArea == [i \in 1..Len(depression_polygons) |->
                          [depression_polygons[i] EXCEPT
                              !.AREA_M = ShapeArea(depression_polygons[i].zone,
                                                   params.cell_size)]]
           layer == MakeFeatureLayer(withArea,
                        sql_exp(min_area(params.cell_size), params.max_area))
       IN  /\ depression_polygons' = layer
           /\ feature_count' = Result(Len(layer))
    /\ ops' = ops \o <<"AddField", "CalculateField", "MakeFeatureLayer", "GetCount">>
    /\ pc' = "count_check"
    /\ UNCHANGED <<tool, raster, params, spatial, licenseHeld, in_memory, exc, errors,
                   depression, deepest_point, centroid_point, cursor, outputs,
                   call, ret>>

\* "Raise error if there are no depression polygons remaining":
\* if feature_count < 1: raise NoFeatures
IdentifyCountCheck ==
    /\ tool = "identify" /\ pc = "count_check"
    /\ IF Py2Less(feature_count, PyInt(1))
       THEN Raise("NoFeatures")
       ELSE pc' = "zonal" /\ exc' = exc
    /\ UNCHANGED <<tool, raster, params, spatial, licenseHeld, in_memory, errors, ops,
                   depression, depression_polygons, feature_count, deepest_point,
                   centroid_point, cursor, outputs, call, ret>>

\* zonal_stats = ZonalStatistics(..., "MINIMUM"); zonal_points = RasterToPoint(...)
IdentifyZonalPoints ==
    /\ tool = "identify" /\ pc = "zonal"
    /\ deepest_point' =
           RasterToPoint(ZonalStatistics(depression_polygons, depression, "MINIMUM"))
    /\ ops' = ops \o <<"ZonalStatistics", "RasterToPoint">>
    /\ in_memory' = in_memory \cup {"zonal_stats", "zonal_points"}
    /\ pc' = "join"
    /\ UNCHANGED <<tool, raster, params, spatial, licenseHeld, exc, errors,
                   depression, depression_polygons, feature_count, centroid_point,
                   cursor, outputs, call, ret>>

\* SpatialJoin_analysis(polygons, zonal_points): POCK_DEP is the MINIMUM of the
\* GRID_CODE of the points a polygon holds
IdentifySpatialJoin ==
    /\ tool = "identify" /\ pc = "join"
    /\ depression_polygons' =
           [i \in 1..Len(depression_polygons) |->
               LET codes == {deepest_point[k].GRID_CODE :
                                k \in {j \in 1..Len(deepest_point) :
                                          deepest_point[j].cell \in depression_polygons[i].zone}}
               IN  [depression_polygons[i] EXCEPT
                       !.POCK_DEP = IF codes = {} THEN Null ELSE SetMin(codes)]]
    /\ ops' = ops \o <<"SpatialJoin">>
    /\ in_memory' = in_memory \cup {"spatial_join"}
    /\ pc' = "copy"
    /\ UNCHANGED <<tool, raster, params, spatial, licenseHeld, exc, errors,
                   depression, feature_count, deepest_point, centroid_point,
                   cursor, outputs, call, ret>>

\* CopyFeatures_management(depression_polygons, out_polygons); end of the try block
IdentifyCopyFeatures ==
    /\ tool = "identify" /\ pc = "copy"
    /\ outputs' = ("out_polygons" :> depression_polygons) @@ outputs
    /\ ops' = ops \o <<"CopyFeatures">>
    /\ pc' = "finally"
    /\ UNCHANGED <<tool, raster, params, spatial, licenseHeld, in_memory, exc, errors,
                   depression, depression_polygons, feature_count, deepest_point,
                   centroid_point, cursor, call, ret>>

(***************************************************************************)
(* AnalyseGeoDepressions.py                                                *)
(***************************************************************************)
\* "Check if bathy is negative values only" (bathy_dataset.maximum)
AnalyseCheckNegative ==
    /\ tool = "analyse" /\ pc = "check_negative"
    /\ IF RasterMaximum(raster) > 0
       THEN Raise("NotNegative")
       ELSE pc' = "check_license" /\ exc' = exc
    /\ UNCHANGED <<tool, raster, params, spatial, licenseHeld, in_memory, errors, ops,
                   depression, depression_polygons, feature_count, deepest_point,
                   centroid_point, cursor, outputs, call, ret>>

AnalyseCheckOutLicense == tool = "analyse" /\ CheckOutLicense("deepest")

Epsilon == 1     \* 0.001, times 1000

\* Con(abs(abs(zonal_max - bathy) - abs(zonal_max - zonal_min)) < 0.001,
\*     abs(zonal_max - zonal_min))
DepressionDepth(zonal_min, zonal_max, bathy) ==
    [c \in CellsOf(bathy) |->
        IF zonal_min[c] = NoData \/ zonal_max[c] = NoData THEN NoData
        ELSE IF Abs(Abs(zonal_max[c] - bathy[c]) - Abs(zonal_max[c] - zonal_min[c])) * 1000
                    < Epsilon
             THEN Abs(zonal_max[c] - zonal_min[c])
             ELSE NoData]

\* "Calculate deepest point of depression" and "Extract bathymetry depth value
\* to deepest point" (ExtractMultiValuesToPoints adds DEPTH)
AnalyseDeepestPoint ==
    /\ tool = "analyse" /\ pc = "deepest"
    /\ LET zonal_min == ZonalStatistics(depression_polygons, raster, "MINIMUM")
           zonal_max == ZonalStatistics(depression_polygons, raster, "MAXIMUM")
           points == RasterToPoint(DepressionDepth(zonal_min, zonal_max, raster))
       IN  deepest_point' =
               [i \in 1..Len(points) |->
                   [pointid |-> points[i].pointid, cell |-> points[i].cell,
                    GRID_CODE |-> points[i].GRID_CODE,
                    DEPTH |-> raster[points[i].cell]]]
    /\ ops' = ops \o <<"ZonalStatistics", "ZonalStatistics", "Con", "RasterToPoint",
                       "ExtractMultiValuesToPoints">>
    /\ in_memory' = in_memory \cup {"zonal_min", "zonal_max", "depression_depth",
                                    "deepest_point"}
    /\ pc' = "add_fields"
    /\ UNCHANGED <<tool, raster, params, spatial, licenseHeld, exc, errors,
                   depression, depression_polygons, feature_count, centroid_point,
                   cursor, outputs, call, ret>>

\* the fields AddField_management adds to the polygons, empty
NewFields ==
    [MAJ_AXIS |-> Null, MIN_AXIS |-> Null, ECC |-> Null, AZIMUTH |-> Null,
     THIN_RAT |-> Null, PERIMETER |-> Null, AREA_M |-> Null, DIDP_RAT |-> Null,
     MORP_CHAR |-> "", DEP_ID |-> Null]

\* SmoothPolygon_cartography(polygons, None, "PAEK", tolerance, "NO_FIXED"):
\* a new feature class with the same rows in the same order.  The smoothed
\* outline is taken to hold the cell centres the polygon held.
SmoothPolygon(rows) == rows

\* "Add fields to depression polygons", "Smooth depression polygons", and the
\* opening of the UpdateCursor (dep_id = 1)
AnalyseAddFieldsSmooth ==
    /\ tool = "analyse" /\ pc = "add_fields"
    /\ depression_polygons' =
           SmoothPolygon([i \in 1..Len(depression_polygons) |->
                             depression_polygons[i] @@ NewFields])
    /\ cursor' = [dep_id |-> 1, pos |-> 0]
    /\ ops' = ops \o <<"AddField", "SmoothPolygon">>
    /\ in_memory' = in_memory \cup {"smooth_polygons"}
    /\ pc' = "cursor"
    /\ UNCHANGED <<tool, raster, params, spatial, licenseHeld, exc, errors,
                   depression, feature_count, deepest_point, centroid_point,
                   outputs, call, ret>>

\* shape_object.length of a polygon of the one-row raster
ShapeLength(zone, cell_size) == 2 * (Cardinality(zone) + 1) * cell_size

\* shape_object.hullRectangle: x1 y1 x2 y2 x3 y3 x4 y4
HullRectangle(zone, cell_size, orientation) ==
    LET a1 == (SetMin(zone) - 1) * cell_size
        a2 == SetMax(zone) * cell_size
    IN  IF orientation = "EW"
        THEN <<a1, 0, a1, cell_size, a2, cell_size, a2, 0>>
        ELSE <<0, a1, 0, a2, cell_size, a2, cell_size, a1>>

\* the axes and the azimuth edge chosen from the hull rectangle
HullAxes(h) ==
    LET distance1 == Hypot(h[1] - h[3], h[2] - h[4])
        distance2 == Hypot(h[3] - h[5], h[4] - h[6])
    IN  IF distance1 <= distance2
        THEN [min_axis |-> distance1, maj_axis |-> distance2,
              azimuth_coords |-> <<h[3], h[5], h[4], h[6]>>]
        ELSE [min_axis |-> distance2, maj_axis |-> distance1,
              azimuth_coords |-> <<h[1], h[3], h[2], h[4]>>]

\* the body of the loop raises ZeroDivisionError on this row
RowRaises(row) ==
    LET axes == HullAxes(HullRectangle(row.zone, params.cell_size, params.orientation))
    IN  \/ EccentricityRaises(axes.maj_axis)
        \/ ThinnessRaises(ShapeLength(row.zone, params.cell_size))
        \/ DiameterDepthRaises(row.POCK_DEP)

\* faulty variant: the identifier is not advanced
NextDepIdStuck(dep_id) == dep_id

\* dep_id += 1
NextDepId(dep_id) == dep_id + 1

\* the row as cursor.updateRow(row) writes it
UpdatedRow(row, dep_id) ==
    LET axes == HullAxes(HullRectangle(row.zone, params.cell_size, params.orientation))
        area == ShapeArea(row.zone, params.cell_size)
        length == ShapeLength(row.zone, params.cell_size)
        thin == thinness_ratio(area, length)
        average_diameter == (axes.maj_axis + axes.min_axis) \div 2
        didp == diameter_depth_ratio(average_diameter, row.POCK_DEP)
    IN  [row EXCEPT !.DEP_ID = dep_id,
                    !.AREA_M = area,
                    !.PERIMETER = length,
                    !.MAJ_AXIS = axes.maj_axis,
                    !.MIN_AXIS = axes.min_axis,
                    !.ECC = eccentricity(axes.maj_axis, axes.min_axis),
                    !.AZIMUTH = azimuth(axes.azimuth_coords),
                    !.THIN_RAT = thin,
                    !.DIDP_RAT = didp,
                    !.MORP_CHAR = shape_descriptor(thin, didp)]

\* faulty variant: a row whose computation raises is skipped and the loop goes on
AnalyseCursorRowSkips ==
    /\ tool = "analyse" /\ pc = "cursor"
    /\ cursor.pos < Len(depression_polygons)
    /\ LET row == depression_polygons[cursor.pos + 1]
       IN  IF RowRaises(row)
           THEN /\ depression_polygons' = depression_polygons
                /\ cursor' = [cursor EXCEPT !.pos = cursor.pos + 1]
           ELSE /\ depression_polygons' =
                       [depression_polygons EXCEPT
                           ![cursor.pos + 1] = UpdatedRow(row, cursor.dep_id)]
                /\ cursor' = [dep_id |-> NextDepId(cursor.dep_id),
                              pos |-> cursor.pos + 1]
    /\ UNCHANGED <<tool, pc, raster, params, spatial, licenseHeld, in_memory, exc, errors,
                   ops, depression, feature_count, deepest_point, centroid_point,
                   outputs, call, ret>>

\* one pass of "for row in cursor"
AnalyseCursorRow ==
    /\ tool = "analyse" /\ pc = "cursor"
    /\ cursor.pos < Len(depression_polygons)
    /\ LET row == depression_polygons[cursor.pos + 1]
       IN  IF RowRaises(row)
           THEN /\ Raise("ZeroDivisionError")
                /\ UNCHANGED <<depression_polygons, cursor>>
           ELSE /\ depression_polygons' =
                       [depression_polygons EXCEPT
                           ![cursor.pos + 1] = UpdatedRow(row, cursor.dep_id)]
                /\ cursor' = [dep_id |-> NextDepId(cursor.dep_id),
                              pos |-> cursor.pos + 1]
                /\ UNCHANGED <<pc, exc>>
    /\ UNCHANGED <<tool, raster, params, spatial, licenseHeld, in_memory, errors,
                   ops, depression, feature_count, deepest_point, centroid_point,
                   outputs, call, ret>>

\* the cursor is exhausted: del cursor
AnalyseCursorEnd ==
    /\ tool = "analyse" /\ pc = "cursor"
    /\ cursor.pos = Len(depression_polygons)
    /\ pc' = "join"
    /\ UNCHANGED <<tool, raster, params, spatial, licenseHeld, in_memory, exc, errors,
                   ops, depression, depression_polygons, feature_count, deepest_point,
                   centroid_point, cursor, outputs, call, ret>>

\* the fields of the field mappings of the spatial join
JoinFields == {"POCK_DEP", "DEP_ID", "MAJ_AXIS", "MIN_AXIS", "ECC", "AZIMUTH",
               "THIN_RAT", "AREA_M", "PERIMETER", "MORP_CHAR"}

\* SpatialJoin_analysis(points, polygons, field_mapping=...): JOIN_ONE_TO_ONE,
\* KEEP_ALL, INTERSECT.  A point takes the mapped fields of the first polygon that
\* holds it; a point no polygon holds is kept with the fields empty.
SpatialJoin(points, polys) ==
    [i \in 1..Len(points) |->
        LET holders == {k \in 1..Len(polys) : points[i].cell \in polys[k].zone}
            base == [cell |-> points[i].cell,
                     TARGET_FID |-> points[i].pointid,
                     Join_Count |-> Cardinality(holders)]
        IN  IF holders = {}
            THEN base @@ [f \in JoinFields |-> NewFields[f]]
            ELSE base @@ [f \in JoinFields |-> polys[SetMin(holders)][f]]]

\* DeleteField_management(table, fields)
DeleteField(rows, fields) ==
    [i \in 1..Len(rows) |-> [f \in (DOMAIN rows[i]) \ fields |-> rows[i][f]]]

\* faulty variant: no row is removed
DeleteIdenticalKeepsAll(rows, field) == rows

\* DeleteIdentical_management(rows, [field]): of the rows that share a value of
\* the field the first one stays
DeleteIdentical(rows, field) ==
    LET kept == {i \in 1..Len(rows) : \A j \in 1..(i - 1) : rows[j][field] # rows[i][field]}
        order == SortedSeq(kept)
    IN  [i \in 1..Len(order) |-> rows[order[i]]]

\* field mappings, SpatialJoin, DeleteField, DeleteIdentical
AnalyseJoinDeepestPoint ==
    /\ tool = "analyse" /\ pc = "join"
    /\ deepest_point' =
           DeleteIdentical(
               DeleteField(SpatialJoin(deepest_point, depression_polygons),
                           {"TARGET_FID", "Join_Count"}),
               "DEP_ID")
    /\ ops' = ops \o <<"SpatialJoin", "DeleteField", "DeleteField", "DeleteIdentical">>
    /\ in_memory' = in_memory \cup {"spatial_join"}
    /\ pc' = "centroid"
    /\ UNCHANGED <<tool, raster, params, spatial, licenseHeld, exc, errors,
                   depression, depression_polygons, feature_count, centroid_point,
                   cursor, outputs, call, ret>>

\* FeatureToPoint_management(polygons, None, "INSIDE"): one point per polygon,
\* inside it, with the polygon's fields
FeatureToPoint(polys) ==
    [i \in 1..Len(polys) |->
        [f \in (DOMAIN polys[i]) \ {"zone"} |-> polys[i][f]]
            @@ [cell |-> SetMin(polys[i].zone)]]

\* "Create depression polygon centre point"
AnalyseCentroid ==
    /\ tool = "analyse" /\ pc = "centroid"
    /\ centroid_point' = FeatureToPoint(depression_polygons)
    /\ ops' = ops \o <<"FeatureToPoint">>
    /\ in_memory' = in_memory \cup {"centroid_point"}
    /\ pc' = "copy_polygons"
    /\ UNCHANGED <<tool, raster, params, spatial, licenseHeld, exc, errors,
                   depression, depression_polygons, feature_count, deepest_point,
                   cursor, outputs, call, ret>>

\* "Save output features": the three CopyFeatures_management calls, one by one
AnalyseCopyFeatures ==
    /\ tool = "analyse"
    /\ \/ /\ pc = "copy_polygons"
          /\ outputs' = ("Depression_Polygons" :> depression_polygons) @@ outputs
          /\ pc' = "copy_deepest"
       \/ /\ pc = "copy_deepest"
          /\ outputs' = ("Depression_Deepest_Point" :> deepest_point) @@ outputs
          /\ pc' = "copy_centroid"
       \/ /\ pc = "copy_centroid"
          /\ outputs' = ("Depression_Centroid" :> centroid_point) @@ outputs
          /\ pc' = "symbology"
    /\ ops' = ops \o <<"CopyFeatures">>
    /\ UNCHANGED <<tool, raster, params, spatial, licenseHeld, in_memory, exc, errors,
                   depression, depression_polygons, feature_count, deepest_point,
                   centroid_point, cursor, call, ret>>

\* "Optional Symbology": the inner try either adds the three layers or gives up
\* with "Symbology not added."; end of the try block
AnalyseSymbology ==
    /\ tool = "analyse" /\ pc = "symbology"
    /\ \E added \in BOOLEAN :
          ops' = IF added THEN ops \o <<"ApplySymbologyFromLayer">> ELSE ops
    /\ pc' = "finally"
    /\ UNCHANGED <<tool, raster, params, spatial, licenseHeld, in_memory, exc, errors,
                   depression, depression_polygons, feature_count, deepest_point,
                   centroid_point, cursor, outputs, call, ret>>

(***************************************************************************)
(* A geoprocessing tool of the extraction or characterisation steps fails  *)
(* (arcpy.ExecuteError); the bare except clause catches it.                *)
(***************************************************************************)
ToolSteps == {"fill", "reclassify", "size_filter", "zonal", "join", "copy",
              "deepest", "add_fields", "centroid", "copy_polygons", "copy_deepest",
              "copy_centroid"}

ToolFails ==
    /\ pc \in ToolSteps
    /\ Raise("ExecuteError")
    /\ UNCHANGED <<tool, raster, params, spatial, licenseHeld, in_memory, errors, ops,
                   depression, depression_polygons, feature_count, deepest_point,
                   centroid_point, cursor, outputs, call, ret>>

Next ==
    \/ ToolFails
    \/ IdentifyCheckNegative
    \/ IdentifyCheckOutLicense
    \/ IdentifyFillMinus
    \/ IdentifyReclassifyToPolygon
    \/ IdentifySizeFilter
    \/ IdentifyCountCheck
    \/ IdentifyZonalPoints
    \/ IdentifySpatialJoin
    \/ IdentifyCopyFeatures
    \/ AnalyseCheckNegative
    \/ AnalyseCheckOutLicense
    \/ AnalyseDeepestPoint
    \/ AnalyseAddFieldsSmooth
    \/ AnalyseCursorRow
    \/ AnalyseCursorEnd
    \/ AnalyseJoinDeepestPoint
    \/ AnalyseCentroid
    \/ AnalyseCopyFeatures
    \/ AnalyseSymbology
    \/ Except
    \/ Finally

Spec == Init /\ [][Next]_vars

\* The runs checked for liveness: the inputs of Init with the raster values
\* drawn from -1..1 (a flat raster for the analyse tool), cells of size 1 laid
\* out west to east, and one setting of z_limit and max_area.
InitFair ==
    /\ Init
    /\ \A c \in DOMAIN raster : raster[c] \in (-1)..1
    /\ tool = "analyse" => \A c \in DOMAIN raster : raster[c] = raster[1]
    /\ params.cell_size = 1
    /\ params.orientation = "EW"
    /\ tool = "identify" => (params.z_limit = 1 /\ params.max_area = 4)

\* the script is a sequential program: it keeps running until it has ended
FairSpec == InitFair /\ [][Next]_vars /\ WF_vars(Next)

(***************************************************************************)
(* The geometry primitives on their own: a call is drawn from bounded      *)
(* argument sets and the function is applied to it.                        *)
(***************************************************************************)
ThinnessInputs ==
    {0, 400, 600, 900, 1000}
        \cup {ThinIrregular + d : d \in (-MaxDelta)..MaxDelta}
        \cup {ThinSemiRegular + d : d \in (-MaxDelta)..MaxDelta}

DdRatioInputs ==
    {0, 10000, 50000, 150000} \cup {DdIrregular + d : d \in (-MaxDelta)..MaxDelta}

ShapeCalls ==
    {[fn |-> "shape_descriptor", args |-> <<t, d>>] :
        t \in ThinnessInputs, d \in DdRatioInputs}

AzimuthCalls ==
    {[fn |-> "azimuth", args |-> <<x1, x2, y1, y2>>] :
        x1 \in 0..MaxCoord, x2 \in 0..MaxCoord, y1 \in 0..MaxCoord, y2 \in 0..MaxCoord}

InitPrimitives ==
    /\ tool = "none"
    /\ pc = "idle"
    /\ raster = <<>>
    /\ params = [cell_size |-> 1, z_limit |-> 0, max_area |-> 0, orientation |-> "EW"]
    /\ depression_polygons = <<>>
    /\ Idle
    /\ call \in ShapeCalls \cup AzimuthCalls
    /\ ret = <<>>

CallShapeDescriptor ==
    /\ call.fn = "shape_descriptor" /\ ret = <<>>
    /\ ret' = <<shape_descriptor(call.args[1], call.args[2])>>
    /\ UNCHANGED <<runVars, call>>

CallAzimuth ==
    /\ call.fn = "azimuth" /\ ret = <<>>
    /\ ret' = <<azimuth(call.args)>>
    /\ UNCHANGED <<runVars, call>>

NextPrimitives == CallShapeDescriptor \/ CallAzimuth

SpecPrimitives == InitPrimitives /\ [][NextPrimitives]_vars

(***************************************************************************)
(* Properties.                                                             *)
(***************************************************************************)
Did(op) == \E i \in 1..Len(ops) : ops[i] = op

\* C1: shape_descriptor returns IRREGULAR whenever thinness < 0.5 or
\* dd_ratio > 100 (whatever the thinness), otherwise SEMI_REGULAR when
\* thinness < 0.75, otherwise REGULAR; the result is one of the three labels
\* and is fixed by the two arguments.
C1_ShapeDescriptorCases ==
    (call.fn = "shape_descriptor" /\ ret # <<>>) =>
        LET thinness == call.args[1]
            dd_ratio == call.args[2]
            irregular == thinness < 500 \/ dd_ratio > 100000
        IN  /\ ret[1] \in {IRREGULAR, SEMI_REGULAR, REGULAR}
            /\ irregular => ret[1] = IRREGULAR
            /\ (~irregular /\ thinness < 750) => ret[1] = SEMI_REGULAR
            /\ (~irregular /\ thinness >= 750) => ret[1] = REGULAR

\* C1 witness: thinness 0.9 with dd_ratio 150 has been classified IRREGULAR
C1_Witness ==
    /\ call.fn = "shape_descriptor"
    /\ call.args = <<900, 150000>>
    /\ ret = <<IRREGULAR>>

\* C9 as amended: azimuth returns a value in [0, 180]; for a vertical line
\* (x1 = x2, y1 # y2) it is 0 when y2 > y1 and 180 when y2 < y1; for a
\* horizontal line (y1 = y2, x1 # x2) it is 90 whichever point comes first.
C9_AzimuthBearingFromNorth ==
    (call.fn = "azimuth" /\ ret # <<>>) =>
        LET x1 == call.args[1]
            x2 == call.args[2]
            y1 == call.args[3]
            y2 == call.args[4]
        IN  /\ 0 <= ret[1] /\ ret[1] <= 180000
            /\ (x1 = x2 /\ y2 > y1) => ret[1] = 0
            /\ (x1 = x2 /\ y2 < y1) => ret[1] = 180000
            /\ (y1 = y2 /\ x1 # x2) => ret[1] = 90000

\* C9 witness: a vertical line given top point first has got 180
C9_Witness ==
    /\ call.fn = "azimuth"
    /\ call.args[1] = call.args[2]
    /\ call.args[4] < call.args[3]
    /\ ret = <<180000>>

\* C9 as stated: azimuth is always in [0, 180), 90 for a vertical line and 0
\* for a horizontal line, whichever of the two points comes first.
C9_Original ==
    (call.fn = "azimuth" /\ ret # <<>>) =>
        LET x1 == call.args[1]
            x2 == call.args[2]
            y1 == call.args[3]
            y2 == call.args[4]
        IN  /\ 0 <= ret[1] /\ ret[1] < 180000
            /\ (x1 = x2 /\ y1 # y2) => ret[1] = 90000
            /\ (y1 = y2 /\ x1 # x2) => ret[1] = 0

\* C2: once the update loop has visited N polygons the DEP_ID values written
\* are exactly 1..N in iteration order: the k-th polygon visited holds DEP_ID k,
\* the polygons not yet visited hold none, and the counter stands at N + 1.
C2_DepIdDense ==
    (tool = "analyse" /\ cursor.dep_id >= 1) =>
        /\ cursor.dep_id = cursor.pos + 1
        /\ \A k \in 1..Len(depression_polygons) :
              depression_polygons[k].DEP_ID = IF k <= cursor.pos THEN k ELSE Null
        /\ "Depression_Polygons" \in DOMAIN outputs =>
              \A k \in 1..Len(outputs["Depression_Polygons"]) :
                  outputs["Depression_Polygons"][k].DEP_ID = k

\* C2 witness: the loop has ended after visiting two polygons or more
C2_Witness ==
    /\ tool = "analyse" /\ pc = "join"
    /\ cursor.pos >= 2
    /\ cursor.pos = Len(depression_polygons)

C4_NotNegativeFirst ==
    (tool \in {"identify", "analyse"} /\ \E c \in DOMAIN raster : raster[c] > 0) =>
        /\ pc # "check_negative" => exc = "NotNegative"
        /\ pc \in {"check_negative", "except", "finally", "done"}
        /\ \A i \in 1..Len(ops) :
              ops[i] \in {"CalculateStatistics", "GetRasterProperties",
                          "CheckInExtension", "Delete"}
        /\ outputs = <<>>
        /\ licenseHeld = FALSE
        /\ pc \in {"finally", "done"} =>
              errors = <<"Bathy raster must be negative values only.">>

\* C4 witness: an analyse run on a raster with a positive cell has ended
C4_Witness ==
    /\ tool = "analyse" /\ pc = "done"
    /\ \E c \in DOMAIN raster : raster[c] > 0
    /\ exc = "NotNegative"

\* C5: in the identify pipeline, when the size filter leaves no polygon the run
\* fails with NoFeatures and goes on neither to the depth step nor to an output.
C5_NoFeaturesRaised ==
    (/\ tool = "identify"
     /\ Did("MakeFeatureLayer")
     /\ Len(depression_polygons) = 0
     /\ pc # "count_check") =>
        /\ exc = "NoFeatures"
        /\ ~Did("ZonalStatistics")
        /\ outputs = <<>>

\* C6 as amended: a polygon whose joined depth is 0 makes diameter_depth_ratio
\* raise ZeroDivisionError, which the bare except clause reports; the loop
\* stops at the first such polygon, which stays uncharacterised like every
\* polygon after it, no spatial join is made and no output is written.
C6_ZeroDepthEndsRun ==
    (/\ tool = "analyse"
     /\ cursor.dep_id >= 1
     /\ \E k \in 1..Len(depression_polygons) : depression_polygons[k].POCK_DEP = 0) =>
        LET first == SetMin({k \in 1..Len(depression_polygons) :
                                depression_polygons[k].POCK_DEP = 0})
        IN  /\ cursor.pos < first
            /\ \A k \in first..Len(depression_polygons) :
                  depression_polygons[k].DEP_ID = Null
            /\ pc \in {"cursor", "except", "finally", "done"}
            /\ pc # "cursor" => (exc = "ZeroDivisionError" /\ cursor.pos = first - 1)
            /\ pc \in {"finally", "done"} => errors[1] = "float division by zero"
            /\ ~Did("SpatialJoin")
            /\ outputs = <<>>

\* C6 witness: a run has ended on the zero depth of its second polygon, the
\* first one characterised
C6_Witness ==
    /\ tool = "analyse" /\ pc = "done"
    /\ exc = "ZeroDivisionError"
    /\ cursor.pos = 1
    /\ depression_polygons[1].DEP_ID = 1
    /\ depression_polygons[2].POCK_DEP = 0

\* C6 as stated: a polygon whose joined depth is 0 is reported and left out
\* while the run goes on: the loop never ends the run, and the polygons
\* written are the characterised polygons with a depth other than 0.
C6_Original ==
    tool = "analyse" =>
        /\ exc # "ZeroDivisionError"
        /\ "Depression_Polygons" \in DOMAIN outputs =>
              \A k \in 1..Len(outputs["Depression_Polygons"]) :
                  /\ outputs["Depression_Polygons"][k].POCK_DEP # 0
                  /\ outputs["Depression_Polygons"][k].DEP_ID # Null

\* C7: on every exit path of either pipeline the cleanup eventually runs: the
\* extension is checked in, in_memory is deleted, and the run ends with the
\* capability not held.
C7_CleanupEventuallyRuns ==
    <>(/\ pc = "done"
       /\ licenseHeld = FALSE
       /\ in_memory = {}
       /\ Len(ops) >= 2
       /\ ops[Len(ops) - 1] = "CheckInExtension"
       /\ ops[Len(ops)] = "Delete")

\* C7 witness: a run that held the extension and lost a tool has ended
C7_Witness ==
    /\ pc = "done"
    /\ exc = "ExecuteError"
    /\ Did("CheckOutExtension")
    /\ in_memory = {}
    /\ licenseHeld = FALSE

\* C8 as amended: when the extension is not available at the license check the
\* run fails with LicenseError before any Spatial Analyst or extraction step
\* and never checks the extension out; the negative-values check comes first
\* (CalculateStatistics and GetRasterProperties in the identify pipeline).
C8_LicenseErrorBeforeAnalysis ==
    spatial = "Unavailable" =>
        /\ exc = "LicenseError"
        /\ licenseHeld = FALSE
        /\ ~Did("CheckOutExtension")
        /\ pc \in {"except", "finally", "done"}
        /\ \A i \in 1..Len(ops) :
              ops[i] \in {"CalculateStatistics", "GetRasterProperties",
                          "CheckExtension", "CheckInExtension", "Delete"}
        /\ tool = "identify" =>
              (ops[1] = "CalculateStatistics" /\ ops[2] = "GetRasterProperties"
                  /\ ops[3] = "CheckExtension")
        /\ tool = "analyse" => ops[1] = "CheckExtension"
        /\ outputs = <<>>
        /\ pc \in {"finally", "done"} =>
              errors = <<"Spatial Analyst Extension Unavailable.">>

\* C8 witness: an identify run has ended on the unavailable extension
C8_Witness ==
    /\ tool = "identify" /\ pc = "done"
    /\ spatial = "Unavailable"
    /\ exc = "LicenseError"

\* C8 as stated: when the extension is not available the run fails with
\* LicenseError and no raster operation, the statistics calculation included,
\* comes before the license check; the extension is never checked out.
C8_Original ==
    spatial = "Unavailable" =>
        /\ exc = "LicenseError"
        /\ licenseHeld = FALSE
        /\ \A i \in 1..Len(ops) :
              ops[i] \in {"CheckExtension", "CheckInExtension", "Delete"}

\* C10: the size filter of the identify pipeline keeps exactly the candidate
\* polygons with (2*cell_size)^2 <= area <= max_area, both limits included, in
\* their order, and drops every other one.
C10_SizeFilterExact ==
    [][(tool = "identify" /\ pc = "size_filter" /\ pc' = "count_check") =>
          LET area(i) ==
                  Cardinality(depression_polygons[i].zone)
                      * params.cell_size * params.cell_size
              inRange == {i \in 1..Len(depression_polygons) :
                             /\ 4 * params.cell_size * params.cell_size <= area(i)
                             /\ area(i) <= params.max_area}
          IN  /\ Len(depression_polygons') = Cardinality(inRange)
              /\ \A i \in inRange :
                    \E k \in 1..Len(depression_polygons') :
                        /\ depression_polygons'[k].Id = depression_polygons[i].Id
                        /\ depression_polygons'[k].zone = depression_polygons[i].zone
                        /\ depression_polygons'[k].AREA_M = area(i)
      ]_vars

\* C10 witness: the filter has kept a polygon whose area is both limits, and
\* has dropped another candidate
C10_Witness ==
    /\ tool = "identify" /\ pc = "count_check"
    /\ Len(depression_polygons) = 1
    /\ depression_polygons[1].AREA_M = params.max_area
    /\ depression_polygons[1].AREA_M = 4 * params.cell_size * params.cell_size

====
